---- MODULE Spec2Model ----
(***************************************************************************)
(* A model of the analytical engine of the expense tracker                 *)
(* (src/ai_features.py, class ExpenseAI) and of the data it is given.      *)
(*                                                                         *)
(* Text is a TLA+ string; TLC evaluates Len, \o and SubSeq on strings, so  *)
(* Python's `k in s` is a search for a substring and str.lower() maps the  *)
(* characters one by one.  Money is an integer number of cents.  A stored  *)
(* date (the ISO string of the store) is <<year, month, day>>; a datetime  *)
(* (datetime.now(), a pandas Timestamp) is <<year, month, day, second of   *)
(* the day>>.                                                              *)
(***************************************************************************)
EXTENDS Integers, Sequences, FiniteSets, TLC

VARIABLES
    now,              \* the value datetime.now() returns
    expenses_df,      \* the DataFrame handed to the analytical operations
    query,            \* the text handed to process_natural_language_query
    description,      \* the text handed to categorize_expense
    called,           \* the operation that ran last ("none" before any)
    category_scores,  \* categorize_expense's local dict of scores
    result,           \* what the last operation returned
    raised,           \* the step of the last operation that raised ("" if none)
    db,               \* the rows of the table expenses of the store
    session_state     \* the keys of st.session_state that are set to True

vars == <<now, expenses_df, query, description, called, category_scores, result,
          raised, db, session_state>>

\* The table expenses before any INSERT: no rows, and 0 as the largest id
\* ever given out (AUTOINCREMENT keeps it in sqlite_sequence).
EmptyTable == [rows |-> << >>, seq |-> 0]

\* Bounds of the model.
MaxFragments == 2
MaxRecords == 3

-----------------------------------------------------------------------------
(* Text *)

\* str.lower() on one character.
LowerChar(c) ==
    CASE c = "A" -> "a" [] c = "B" -> "b" [] c = "C" -> "c" [] c = "D" -> "d"
      [] c = "E" -> "e" [] c = "F" -> "f" [] c = "G" -> "g" [] c = "H" -> "h"
      [] c = "I" -> "i" [] c = "J" -> "j" [] c = "K" -> "k" [] c = "L" -> "l"
      [] c = "M" -> "m" [] c = "N" -> "n" [] c = "O" -> "o" [] c = "P" -> "p"
      [] c = "Q" -> "q" [] c = "R" -> "r" [] c = "S" -> "s" [] c = "T" -> "t"
      [] c = "U" -> "u" [] c = "V" -> "v" [] c = "W" -> "w" [] c = "X" -> "x"
      [] c = "Y" -> "y" [] c = "Z" -> "z"
      [] OTHER -> c

RECURSIVE LowerFrom(_, _)
LowerFrom(s, i) ==
    IF i > Len(s) THEN "" ELSE LowerChar(SubSeq(s, i, i)) \o LowerFrom(s, i + 1)

\* A faulty variant of Lower: the text is searched as typed.
LowerNotApplied(s) == s

\* str.lower()
Lower(s) == LowerFrom(s, 1)

\* Python's `k in s` for strings: k occurs in s as a substring.
Contains(s, k) ==
    \E i \in 1..(Len(s) - Len(k) + 1) : SubSeq(s, i, i + Len(k) - 1) = k

-----------------------------------------------------------------------------
(* ExpenseAI.__init__ : the keyword table, in declaration order *)

CategoryOrder ==
    << "Food", "Transportation", "Shopping", "Entertainment", "Bills",
       "Healthcare", "Education", "Travel" >>

category_keywords == [
    Food |-> <<
        "restaurant", "food", "lunch", "dinner", "breakfast", "snack",
        "coffee", "pizza", "burger", "sandwich", "takeout", "delivery",
        "grocery", "supermarket", "cafe", "mcdonalds", "starbucks", "subway",
        "kfc", "dominos", "uber eats", "doordash" >>,
    Transportation |-> <<
        "gas", "fuel", "uber", "taxi", "bus", "train", "metro", "parking",
        "toll", "car", "vehicle", "maintenance", "repair", "lyft", "transport" >>,
    Shopping |-> <<
        "amazon", "store", "shop", "retail", "clothes", "clothing", "shoes",
        "electronics", "gadget", "online", "purchase", "buy", "walmart",
        "target" >>,
    Entertainment |-> <<
        "movie", "cinema", "theater", "concert", "game", "sport", "gym",
        "netflix", "spotify", "entertainment", "subscription", "hobby" >>,
    Bills |-> <<
        "electric", "water", "internet", "phone", "rent", "mortgage",
        "insurance", "utility", "bill", "payment", "subscription", "service" >>,
    Healthcare |-> <<
        "doctor", "hospital", "medicine", "pharmacy", "medical", "health",
        "dentist", "clinic", "prescription", "treatment" >>,
    Education |-> <<
        "school", "college", "university", "course", "book", "education",
        "learning", "tuition", "fees", "class" >>,
    Travel |-> <<
        "hotel", "flight", "vacation", "trip", "travel", "booking", "airbnb",
        "resort", "cruise", "tour" >> ]

\* The nine category names of the application.
Categories == {CategoryOrder[i] : i \in 1..Len(CategoryOrder)} \cup {"Other"}

-----------------------------------------------------------------------------
(* ExpenseAI.categorize_expense *)

\* The inner loop: score += len(keyword) for each keyword found.
RECURSIVE KeywordScore(_, _, _)
KeywordScore(keywords, i, description_lower) ==
    IF i > Len(keywords) THEN 0
    ELSE (IF Contains(description_lower, keywords[i]) THEN Len(keywords[i]) ELSE 0)
         + KeywordScore(keywords, i + 1, description_lower)

\* The outer loop: the dict category_scores.
ScoreAll(desc) ==
    LET description_lower == Lower(desc)
    IN  [c \in DOMAIN category_keywords |->
            KeywordScore(category_keywords[c], 1, description_lower)]

MaxScore(scores) ==
    CHOOSE m \in {scores[c] : c \in DOMAIN scores} :
        \A c \in DOMAIN scores : scores[c] <= m

\* A faulty variant of BestCategory: of the categories with the highest score the
\* last one declared is taken.
BestCategoryLastWins(scores) ==
    LET i == CHOOSE j \in 1..Len(CategoryOrder) :
                 /\ scores[CategoryOrder[j]] = MaxScore(scores)
                 /\ \A k \in (j + 1)..Len(CategoryOrder) :
                        scores[CategoryOrder[k]] < MaxScore(scores)
    IN  CategoryOrder[i]

\* A faulty variant of BestCategory: the first category whose score is the
\* lowest is taken.
BestCategoryLowest(scores) ==
    LET i == CHOOSE j \in 1..Len(CategoryOrder) :
                 /\ \A k \in 1..Len(CategoryOrder) :
                        scores[CategoryOrder[k]] >= scores[CategoryOrder[j]]
                 /\ \A k \in 1..(j - 1) :
                        scores[CategoryOrder[k]] > scores[CategoryOrder[j]]
    IN  CategoryOrder[i]

\* max(category_scores, key=...): the first key, in the dict's insertion
\* order, whose score is the highest.
BestCategory(scores) ==
    LET i == CHOOSE j \in 1..Len(CategoryOrder) :
                 /\ scores[CategoryOrder[j]] = MaxScore(scores)
                 /\ \A k \in 1..(j - 1) :
                        scores[CategoryOrder[k]] < MaxScore(scores)
    IN  CategoryOrder[i]

\* A faulty variant of HasMatch: short keywords alone do not count as a match.
HasMatchAboveFour(scores) == MaxScore(scores) > 4

\* `category_scores and max(category_scores.values()) > 0`
HasMatch(scores) == MaxScore(scores) > 0

\* The function: what it returns and the scores it computed on the way
\* (none when it returns before the loop).
categorize_expense(desc) ==
    IF desc = ""
    THEN [ret |-> "Other", scores |-> << >>]
    ELSE LET scores == ScoreAll(desc)
         IN  [ret    |-> IF HasMatch(scores) THEN BestCategory(scores) ELSE "Other",
              scores |-> scores]

-----------------------------------------------------------------------------
(* Dates: datetime, timedelta and pandas.to_datetime *)

IsLeap(y) == (y % 4 = 0 /\ y % 100 # 0) \/ y % 400 = 0

DaysInMonth(y, m) ==
    IF m = 2 THEN (IF IsLeap(y) THEN 29 ELSE 28)
    ELSE IF m \in {4, 6, 9, 11} THEN 30 ELSE 31

\* a < b for datetimes <<year, month, day, second>>
Before(a, b) ==
    \/ a[1] < b[1]
    \/ a[1] = b[1] /\ a[2] < b[2]
    \/ a[1] = b[1] /\ a[2] = b[2] /\ a[3] < b[3]
    \/ a[1] = b[1] /\ a[2] = b[2] /\ a[3] = b[3] /\ a[4] < b[4]

\* a >= b and a <= b, as the comparisons of a date column with a datetime
NotBefore(a, b) == ~Before(a, b)
NotAfter(a, b) == ~Before(b, a)

\* A faulty variant of ToDatetime: a value that is already a Timestamp is
\* not recognised and becomes the epoch.
ToDatetimeOfTextOnly(d) == IF Len(d) = 3 THEN <<d[1], d[2], d[3], 0>> ELSE <<1970, 1, 1, 0>>

\* pd.to_datetime on one value of the date column: an ISO date string
\* becomes the Timestamp of that day's midnight; a Timestamp stays.
ToDatetime(d) == IF Len(d) = 3 THEN <<d[1], d[2], d[3], 0>> ELSE d

\* datetime.replace(day=1): the time of day is kept.
ReplaceDay1(dt) == <<dt[1], dt[2], 1, dt[4]>>

\* dt - timedelta(days=1)
MinusOneDay(dt) ==
    IF dt[3] > 1 THEN <<dt[1], dt[2], dt[3] - 1, dt[4]>>
    ELSE IF dt[2] > 1 THEN <<dt[1], dt[2] - 1, DaysInMonth(dt[1], dt[2] - 1), dt[4]>>
    ELSE <<dt[1] - 1, 12, 31, dt[4]>>

\* dt - timedelta(days=n)
RECURSIVE MinusDays(_, _)
MinusDays(dt, n) == IF n = 0 THEN dt ELSE MinusDays(MinusOneDay(dt), n - 1)

-----------------------------------------------------------------------------
(* The DataFrame: its column names and its rows, in the store's order *)

StoredColumns == <<"id", "description", "amount", "category", "date", "created_at">>

None == [kind |-> "None"]

Empty(df) == Len(df.rows) = 0

\* expenses_df['date'] = pd.to_datetime(expenses_df['date']): the column of
\* the caller's DataFrame is replaced.
ConvertDates(df) ==
    [df EXCEPT !.rows = [i \in 1..Len(df.rows) |->
                            [df.rows[i] EXCEPT !.date = ToDatetime(@)]]]

RECURSIVE SumAmount(_)
SumAmount(rows) ==
    IF Len(rows) = 0 THEN 0 ELSE rows[1].amount + SumAmount(Tail(rows))

\* df[(df['date'] >= lo) & (df['date'] <= hi)]
Between(rows, lo, hi) ==
    SelectSeq(rows, LAMBDA r : NotBefore(r.date, lo) /\ NotAfter(r.date, hi))

\* df[df['date'] >= lo]
Since(rows, lo) == SelectSeq(rows, LAMBDA r : NotBefore(r.date, lo))

-----------------------------------------------------------------------------
(* Exact fractions <<numerator, denominator>>, denominator > 0, for the     *)
(* floating-point quotients of the code                                     *)

RECURSIVE Gcd(_, _)
Gcd(a, b) == IF b = 0 THEN a ELSE Gcd(b, a % b)

Abs(x) == IF x < 0 THEN -x ELSE x

Frac(n, d) ==
    LET g == Gcd(Abs(n), d)
    IN  IF g = 0 THEN <<0, 1>> ELSE <<n \div g, d \div g>>

-----------------------------------------------------------------------------
(* ExpenseAI.analyze_monthly_spending *)

\* A faulty variant of PercentageChange: the quotient is taken whenever the
\* previous total is not negative, and 100 otherwise.
PercentageChangeNoZeroCase(current, previous) ==
    IF previous > 0
    THEN Frac((current - previous) * 100, previous)
    ELSE <<100, 1>>

\* The percentage change of the two totals.
PercentageChange(current, previous) ==
    IF previous > 0
    THEN Frac((current - previous) * 100, previous)
    ELSE IF current = 0 THEN <<0, 1>> ELSE <<100, 1>>

\* Returns the result and the DataFrame as the call leaves it.
analyze_monthly_spending(df, current_date) ==
    IF Empty(df) THEN [ret |-> None, df |-> df]
    ELSE
    LET df1 == ConvertDates(df)
        current_month_start  == ReplaceDay1(current_date)
        previous_month_start == ReplaceDay1(MinusOneDay(current_month_start))
        previous_month_end   == MinusOneDay(current_month_start)
        current_month_expenses ==
            SumAmount(Between(df1.rows, current_month_start, current_date))
        previous_month_expenses ==
            SumAmount(Between(df1.rows, previous_month_start, previous_month_end))
    IN  [ret |-> [kind              |-> "analysis",
                  current_month     |-> current_month_expenses,
                  previous_month    |-> previous_month_expenses,
                  percentage_change |->
                      PercentageChange(current_month_expenses, previous_month_expenses)],
         df  |-> df1]

-----------------------------------------------------------------------------
(* ExpenseAI.predict_next_month_spending *)

\* The fewest records a prediction is attempted on.
MinRecords == 3

\* A faulty variant of ToPeriodM: the period is the year alone.
ToPeriodYearOnly(dt) == <<dt[1], 1>>

\* dt.to_period('M') of a Timestamp
ToPeriodM(dt) == <<dt[1], dt[2]>>

MonthBefore(a, b) == a[1] < b[1] \/ (a[1] = b[1] /\ a[2] < b[2])

\* expenses_df['month_year'] = ...: a column is added to (or replaced in)
\* the caller's DataFrame.
AddMonthYear(df) ==
    [columns |-> IF \E i \in 1..Len(df.columns) : df.columns[i] = "month_year"
                 THEN df.columns ELSE Append(df.columns, "month_year"),
     rows    |-> [i \in 1..Len(df.rows) |->
                     [month_year |-> ToPeriodM(df.rows[i].date)] @@ df.rows[i]]]

RECURSIVE SortedMonths(_)
SortedMonths(months) ==
    IF months = {} THEN << >>
    ELSE LET first == CHOOSE a \in months : \A b \in months : ~MonthBefore(b, a)
         IN  <<first>> \o SortedMonths(months \ {first})

\* A faulty variant of MonthlySpending: every calendar month from the first
\* with records to the last has a total, 0 when it has no record.
MonthlySpendingZeroFilled(rows) ==
    LET Index(m) == m[1] * 12 + m[2]
        used == {Index(rows[i].month_year) : i \in 1..Len(rows)}
        lo   == CHOOSE a \in used : \A b \in used : a <= b
        hi   == CHOOSE a \in used : \A b \in used : a >= b
    IN  [k \in 1..(hi - lo + 1) |->
            SumAmount(SelectSeq(rows, LAMBDA r : Index(r.month_year) = lo + k - 1))]

\* groupby('month_year')['amount'].sum(): the totals of the months that
\* have records, in chronological order.
MonthlySpending(rows) ==
    LET months == SortedMonths({rows[i].month_year : i \in 1..Len(rows)})
    IN  [k \in 1..Len(months) |->
            SumAmount(SelectSeq(rows, LAMBDA r : r.month_year = months[k]))]

RECURSIVE SumSeq(_)
SumSeq(y) == IF Len(y) = 0 THEN 0 ELSE y[1] + SumSeq(Tail(y))

\* sum of x*y over the points (0, y[1]), (1, y[2]), ...
RECURSIVE SumXY(_, _)
SumXY(y, i) == IF i > Len(y) THEN 0 ELSE (i - 1) * y[i] + SumXY(y, i + 1)

RECURSIVE SumSquares(_)
SumSquares(n) == IF n = 0 THEN 0 ELSE (n - 1) * (n - 1) + SumSquares(n - 1)

\* LinearRegression().fit(X, y).predict([[len(y)]]): the least-squares line
\* through (0, y[1]) .. (N-1, y[N]), read at N.
LinearPrediction(y) ==
    LET N   == Len(y)
        Sx  == (N * (N - 1)) \div 2
        Sxx == SumSquares(N)
        Sy  == SumSeq(y)
        Sxy == SumXY(y, 1)
        D   == N * Sxx - Sx * Sx
        S   == N * Sxy - Sx * Sy
    IN  Frac(Sy * D + S * (N * N - Sx), N * D)

\* A faulty variant of ClampAtZero: the prediction is returned as fitted.
NotClamped(f) == f

\* max(0, prediction)
ClampAtZero(f) == IF f[1] <= 0 THEN <<0, 1>> ELSE f

predict_next_month_spending(df) ==
    IF Empty(df) \/ Len(df.rows) < MinRecords THEN [ret |-> None, df |-> df]
    ELSE
    LET df2 == AddMonthYear(ConvertDates(df))
        monthly_spending == MonthlySpending(df2.rows)
    IN  IF Len(monthly_spending) < 2 THEN [ret |-> None, df |-> df2]
        ELSE [ret |-> [kind  |-> "prediction",
                       value |-> ClampAtZero(LinearPrediction(monthly_spending))],
              df  |-> df2]

-----------------------------------------------------------------------------
(* ExpenseAI.get_category_insights *)

\* The trend is looked at only with more records than this.
TrendMinRecords == 30

\* The order in which groupby('category') yields its groups: sorted names.
CategorySorted ==
    << "Bills", "Education", "Entertainment", "Food", "Healthcare", "Other",
       "Shopping", "Transportation", "Travel" >>

\* rows.groupby('category')['amount'].sum(): one entry per category that has
\* rows, in sorted order.
CategorySpending(rows) ==
    LET present == SelectSeq(CategorySorted,
                       LAMBDA c : \E i \in 1..Len(rows) : rows[i].category = c)
    IN  [k \in 1..Len(present) |->
            [category |-> present[k],
             amount   |-> SumAmount(SelectSeq(rows,
                              LAMBDA r : r.category = present[k]))]]

RECURSIVE SumSpending(_)
SumSpending(s) == IF Len(s) = 0 THEN 0 ELSE s[1].amount + SumSpending(Tail(s))

\* The high_spending insights: amount > mean * 1.5
HighSpending(category_spending) ==
    LET n     == Len(category_spending)
        total == SumSpending(category_spending)
        high  == SelectSeq(category_spending,
                     LAMBDA e : e.amount * n * 2 > total * 3)
    IN  [k \in 1..Len(high) |->
            [type     |-> "high_spending",
             category |-> high[k].category,
             amount   |-> high[k].amount,
             message  |-> "High spending detected in " \o high[k].category]]

\* The increasing_trend insights: current_amount > last_amount * 1.3 for
\* the categories of the current month that the last month has too.
IncreasingTrend(current_category_spending, last_category_spending) ==
    LET LastOf(c) == CHOOSE e \in {last_category_spending[i] :
                                     i \in 1..Len(last_category_spending)} :
                         e.category = c
        rising == SelectSeq(current_category_spending,
                      LAMBDA e :
                          /\ \E i \in 1..Len(last_category_spending) :
                                 last_category_spending[i].category = e.category
                          /\ e.amount * 10 > LastOf(e.category).amount * 13)
    IN  [k \in 1..Len(rising) |->
            [type           |-> "increasing_trend",
             category       |-> rising[k].category,
             current_amount |-> rising[k].amount,
             last_amount    |-> LastOf(rising[k].category).amount,
             message        |-> "Spending in " \o rising[k].category
                                    \o " is increasing"]]

\* A faulty variant of get_category_insights: the trend insights are put
\* before the high spending insights.
get_category_insights_trend_first(df, current_date) ==
    IF Empty(df) THEN [ret |-> [kind |-> "insights", list |-> << >>], df |-> df]
    ELSE
    LET df1 == ConvertDates(df)
        current_month_start == ReplaceDay1(current_date)
        current_month_data  == Since(df1.rows, current_month_start)
        category_spending   == CategorySpending(current_month_data)
        high  == IF Len(category_spending) > 0
                 THEN HighSpending(category_spending) ELSE << >>
        last_month_start == ReplaceDay1(MinusOneDay(current_month_start))
        last_month_end   == MinusOneDay(current_month_start)
        last_month_data  == Between(df1.rows, last_month_start, last_month_end)
        trend == IF Len(df1.rows) > TrendMinRecords
                 THEN IncreasingTrend(CategorySpending(current_month_data),
                                      CategorySpending(last_month_data))
                 ELSE << >>
    IN  [ret |-> [kind |-> "insights", list |-> trend \o high], df |-> df1]

get_category_insights(df, current_date) ==
    IF Empty(df) THEN [ret |-> [kind |-> "insights", list |-> << >>], df |-> df]
    ELSE
    LET df1 == ConvertDates(df)
        current_month_start == ReplaceDay1(current_date)
        current_month_data  == Since(df1.rows, current_month_start)
        category_spending   == CategorySpending(current_month_data)
        high  == IF Len(category_spending) > 0
                 THEN HighSpending(category_spending) ELSE << >>
        last_month_start == ReplaceDay1(MinusOneDay(current_month_start))
        last_month_end   == MinusOneDay(current_month_start)
        last_month_data  == Between(df1.rows, last_month_start, last_month_end)
        trend == IF Len(df1.rows) > TrendMinRecords
                 THEN IncreasingTrend(CategorySpending(current_month_data),
                                      CategorySpending(last_month_data))
                 ELSE << >>
    IN  [ret |-> [kind |-> "insights", list |-> high \o trend], df |-> df1]

-----------------------------------------------------------------------------
(* Formatting *)

Digits == "0123456789"

DigitStr(n) == SubSeq(Digits, n + 1, n + 1)

RECURSIVE NatStr(_)
NatStr(n) == IF n < 10 THEN DigitStr(n) ELSE NatStr(n \div 10) \o DigitStr(n % 10)

TwoDigits(n) == DigitStr(n \div 10) \o DigitStr(n % 10)

\* f"{amount:.2f}" of a non-negative amount held in cents
Fmt2(cents) == NatStr(cents \div 100) \o "." \o TwoDigits(cents % 100)

\* f"{mean:.2f}" of the mean n/d of amounts in cents (to the nearest cent);
\* the mean of no rows is NaN.
FmtMean(f) == IF f[2] = 0 THEN "nan" ELSE Fmt2((2 * f[1] + f[2]) \div (2 * f[2]))

\* Timestamp.strftime('%Y-%m-%d')
FmtDate(dt) == NatStr(dt[1]) \o "-" \o TwoDigits(dt[2]) \o "-" \o TwoDigits(dt[3])

-----------------------------------------------------------------------------
(* ExpenseAI.process_natural_language_query *)

\* The rows of a preview: head(10), nlargest(5, ...) and nsmallest(5, ...).
HeadRows == 10
TopRows == 5

NotUnderstood == "I couldn't understand your query. Please try rephrasing it."

\* The keys of time_filters, in the dict's insertion order.
TimePeriods == << "last week", "last month", "this month", "this year", "last year" >>

\* A faulty variant of time_filters: "this month" starts now.
time_filters_month_from_now(current_date) ==
    [p \in {TimePeriods[i] : i \in 1..Len(TimePeriods)} |->
        CASE p = "last week"  -> MinusDays(current_date, 7)
          [] p = "last month" -> MinusDays(current_date, 30)
          [] p = "this month" -> current_date
          [] p = "this year"  -> <<current_date[1], 1, 1, current_date[4]>>
          [] p = "last year"  -> <<current_date[1] - 1, 1, 1, current_date[4]>>]

\* The dict time_filters: the start date of each period.
time_filters(current_date) ==
    [p \in {TimePeriods[i] : i \in 1..Len(TimePeriods)} |->
        CASE p = "last week"  -> MinusDays(current_date, 7)
          [] p = "last month" -> MinusDays(current_date, 30)
          [] p = "this month" -> ReplaceDay1(current_date)
          [] p = "this year"  -> <<current_date[1], 1, 1, current_date[4]>>
          [] p = "last year"  -> <<current_date[1] - 1, 1, 1, current_date[4]>>]

\* A faulty variant of TimePeriod: the last key that occurs in the query.
TimePeriodLastKey(query_lower) ==
    IF \E i \in 1..Len(TimePeriods) : Contains(query_lower, TimePeriods[i])
    THEN TimePeriods[CHOOSE i \in 1..Len(TimePeriods) :
             /\ Contains(query_lower, TimePeriods[i])
             /\ \A j \in (i + 1)..Len(TimePeriods) :
                    ~Contains(query_lower, TimePeriods[j])]
    ELSE ""

\* The period the loop over time_filters stops at: the first key that
\* occurs in the query; "" when none does (time_period stays None).
TimePeriod(query_lower) ==
    IF \E i \in 1..Len(TimePeriods) : Contains(query_lower, TimePeriods[i])
    THEN TimePeriods[CHOOSE i \in 1..Len(TimePeriods) :
             /\ Contains(query_lower, TimePeriods[i])
             /\ \A j \in 1..(i - 1) : ~Contains(query_lower, TimePeriods[j])]
    ELSE ""

\* The rows the time filter keeps.  "last year" has no branch of its own:
\* filtered_df stays the copy of the whole DataFrame.
TimeFiltered(rows, period, current_date) ==
    LET start_date == time_filters(current_date)
    IN  CASE period = "last week"  -> Since(rows, start_date["last week"])
          [] period = "last month" ->
                 LET last_month_start ==
                         ReplaceDay1(MinusOneDay(ReplaceDay1(current_date)))
                     last_month_end == MinusOneDay(ReplaceDay1(current_date))
                 IN  Between(rows, last_month_start, last_month_end)
          [] period = "this month" -> Since(rows, start_date["this month"])
          [] period = "this year"  -> Since(rows, start_date["this year"])
          [] OTHER -> rows

\* A faulty variant of QueryCategory: the last category whose name occurs.
QueryCategoryLastName(query_lower) ==
    IF \E i \in 1..Len(CategoryOrder) : Contains(query_lower, Lower(CategoryOrder[i]))
    THEN CategoryOrder[CHOOSE i \in 1..Len(CategoryOrder) :
             /\ Contains(query_lower, Lower(CategoryOrder[i]))
             /\ \A j \in (i + 1)..Len(CategoryOrder) :
                    ~Contains(query_lower, Lower(CategoryOrder[j]))]
    ELSE ""

\* The category the loop over the category names stops at: the first one
\* whose lowercased name occurs in the query; "" when none does.
QueryCategory(query_lower) ==
    IF \E i \in 1..Len(CategoryOrder) : Contains(query_lower, Lower(CategoryOrder[i]))
    THEN CategoryOrder[CHOOSE i \in 1..Len(CategoryOrder) :
             /\ Contains(query_lower, Lower(CategoryOrder[i]))
             /\ \A j \in 1..(i - 1) : ~Contains(query_lower, Lower(CategoryOrder[j]))]
    ELSE ""

\* any(word in query_lower for word in words)
AnyWord(query_lower, words) == \E w \in words : Contains(query_lower, w)

\* df[['date', 'description', 'amount', 'category']]
Project(rows) ==
    [i \in 1..Len(rows) |->
        [date        |-> rows[i].date,
         description |-> rows[i].description,
         amount      |-> rows[i].amount,
         category    |-> rows[i].category]]

\* A faulty variant of HeadOf: every row, whatever n.
HeadOfAll(rows, n) == rows

\* df.head(n)
HeadOf(rows, n) == SubSeq(rows, 1, IF Len(rows) < n THEN Len(rows) ELSE n)

\* A faulty variant of IdxMax: the position of the last row whose amount is
\* the largest.
IdxMaxLast(rows) ==
    CHOOSE i \in 1..Len(rows) :
        /\ \A j \in 1..Len(rows) : rows[j].amount <= rows[i].amount
        /\ \A j \in (i + 1)..Len(rows) : rows[j].amount < rows[i].amount

\* The position of the first row whose amount is the largest (idxmax) and
\* of the first whose amount is the smallest (idxmin).
IdxMax(rows) ==
    CHOOSE i \in 1..Len(rows) :
        /\ \A j \in 1..Len(rows) : rows[j].amount <= rows[i].amount
        /\ \A j \in 1..(i - 1) : rows[j].amount < rows[i].amount

IdxMin(rows) ==
    CHOOSE i \in 1..Len(rows) :
        /\ \A j \in 1..Len(rows) : rows[j].amount >= rows[i].amount
        /\ \A j \in 1..(i - 1) : rows[j].amount > rows[i].amount

Without(rows, i) == SubSeq(rows, 1, i - 1) \o SubSeq(rows, i + 1, Len(rows))

\* nlargest(n, 'amount') and nsmallest(n, 'amount'): by amount, rows of
\* equal amount in their order in the DataFrame.
RECURSIVE NLargest(_, _)
NLargest(rows, n) ==
    IF n = 0 \/ Len(rows) = 0 THEN << >>
    ELSE <<rows[IdxMax(rows)]>> \o NLargest(Without(rows, IdxMax(rows)), n - 1)

RECURSIVE NSmallest(_, _)
NSmallest(rows, n) ==
    IF n = 0 \/ Len(rows) = 0 THEN << >>
    ELSE <<rows[IdxMin(rows)]>> \o NSmallest(Without(rows, IdxMin(rows)), n - 1)

\* df['amount'].mean(): NaN, written <<0, 0>>, when there are no rows.
Mean(rows) ==
    IF Len(rows) = 0 THEN <<0, 0>> ELSE Frac(SumAmount(rows), Len(rows))

\* A faulty variant of Text: a result record with a zero amount in place of
\* the plain string.
TextAsZeroRecord(t) == [kind |-> "dict", amount |-> 0, details |-> t, data |-> << >>]

Text(t) == [kind |-> "text", text |-> t]

\* A faulty variant of Intent: the Average words are looked for first.
IntentAverageFirst(query_lower) ==
    IF AnyWord(query_lower, {"average", "avg"}) THEN "average"
    ELSE IF AnyWord(query_lower, {"how much", "total", "spent", "spending"}) THEN "sum"
    ELSE IF AnyWord(query_lower, {"highest", "maximum", "max", "most expensive"})
    THEN "max"
    ELSE IF AnyWord(query_lower, {"lowest", "minimum", "min", "cheapest"}) THEN "min"
    ELSE "summary"

\* The branch the words of the query select: the first of the if/elif
\* chain whose word list has a word in the query.
Intent(query_lower) ==
    IF AnyWord(query_lower, {"how much", "total", "spent", "spending"}) THEN "sum"
    ELSE IF AnyWord(query_lower, {"average", "avg"}) THEN "average"
    ELSE IF AnyWord(query_lower, {"highest", "maximum", "max", "most expensive"})
    THEN "max"
    ELSE IF AnyWord(query_lower, {"lowest", "minimum", "min", "cheapest"}) THEN "min"
    ELSE "summary"

\* What the function reads off the text of the query alone.
ParseQuery(q) ==
    LET query_lower == Lower(q)
    IN  [time_period |-> TimePeriod(query_lower),
         category    |-> QueryCategory(query_lower),
         intent      |-> Intent(query_lower)]

\* A faulty variant of Summary: no test that the filtered rows are not
\* empty.
SummaryOfAny(filtered) ==
    [kind    |-> "dict",
     amount  |-> SumAmount(filtered),
     details |-> "Found " \o NatStr(Len(filtered))
                     \o " expenses totaling $" \o Fmt2(SumAmount(filtered)),
     data    |-> HeadOf(Project(filtered), HeadRows)]

\* The else branch of the chain: the summary of the filtered rows when
\* there are any, else the fall-through to the final return.
Summary(filtered) ==
    IF Len(filtered) > 0
    THEN [kind    |-> "dict",
          amount  |-> SumAmount(filtered),
          details |-> "Found " \o NatStr(Len(filtered))
                          \o " expenses totaling $" \o Fmt2(SumAmount(filtered)),
          data    |-> HeadOf(Project(filtered), HeadRows)]
    ELSE Text(NotUnderstood)

\* The branches of the if/elif chain, over the filtered rows.
Answer(intent, filtered, time_period, category) ==
    LET period_text   == IF time_period # "" THEN " " \o time_period ELSE ""
        category_text == IF category # "" THEN " on " \o category ELSE ""
    IN
    CASE intent = "sum" ->
         LET total_amount == SumAmount(filtered)
         IN  [kind    |-> "dict",
              amount  |-> total_amount,
              details |-> "Total spending" \o category_text \o period_text
                              \o ": $" \o Fmt2(total_amount),
              data    |-> HeadOf(Project(filtered), HeadRows)]
      [] intent = "average" ->
         LET avg_amount == Mean(filtered)
         IN  [kind    |-> "dict",
              amount  |-> avg_amount,
              details |-> "Average spending" \o category_text \o period_text
                              \o ": $" \o FmtMean(avg_amount),
              data    |-> HeadOf(Project(filtered), HeadRows)]
      [] intent = "max" ->
         IF Len(filtered) > 0
         THEN LET max_expense == filtered[IdxMax(filtered)]
              IN  [kind    |-> "dict",
                   amount  |-> max_expense.amount,
                   details |-> "Highest expense: " \o max_expense.description
                                   \o " - $" \o Fmt2(max_expense.amount)
                                   \o " on " \o FmtDate(max_expense.date),
                   data    |-> Project(NLargest(filtered, TopRows))]
         ELSE Text(NotUnderstood)
      [] intent = "min" ->
         IF Len(filtered) > 0
         THEN LET min_expense == filtered[IdxMin(filtered)]
              IN  [kind    |-> "dict",
                   amount  |-> min_expense.amount,
                   details |-> "Lowest expense: " \o min_expense.description
                                   \o " - $" \o Fmt2(min_expense.amount)
                                   \o " on " \o FmtDate(min_expense.date),
                   data    |-> Project(NSmallest(filtered, TopRows))]
         ELSE Text(NotUnderstood)
      [] OTHER -> Summary(filtered)

\* The questions asked.
Queries ==
    { "How much did I spend this month",
      "How much did I spend on Food last month?",
      "How much did I spend last year" }

\* The questions asked of the ledger: two periods in one question, in the
\* other order than time_filters lists them; two categories likewise; words
\* of two branches of the if/elif chain; no period, no category, no word of
\* any branch.
LedgerQueries ==
    { "total this month or last week",
      "total this year and last month",
      "total last year this year",
      "total last year",
      "this month total last year",
      "total",
      "total bills and food",
      "total travel",
      "What's my average spending on transportation?",
      "average on food",
      "avg or max",
      "cheapest or highest",
      "cheapest food",
      "minimum last month",
      "maximum",
      "minimum",
      "most expensive this year",
      "show my expenses",
      "show travel expenses",
      "show expenses last week",
      "show education and entertainment this month" }

\* ParseQuery of each question asked, worked out once.
Parsed == [q \in Queries \cup LedgerQueries |-> ParseQuery(q)]

process_natural_language_query(q, df, current_date) ==
    IF Empty(df) THEN [ret |-> Text("No expense data available to query."), df |-> df]
    ELSE
    LET df1 == ConvertDates(df)
        time_period == Parsed[q].time_period
        in_period   == TimeFiltered(df1.rows, time_period, current_date)
        category    == Parsed[q].category
        filtered_df == IF category = "" THEN in_period
                       ELSE SelectSeq(in_period, LAMBDA r : r.category = category)
    IN  [ret |-> Answer(Parsed[q].intent, filtered_df, time_period, category),
         df  |-> df1]

-----------------------------------------------------------------------------
(* The inputs *)

Midnight == <<0>>
Noon == <<43200>>

\* The values of the clock: the middle of a January and the first day of a
\* March after a leap February, each at midnight and at noon.
Clocks ==
    { <<2024, 1, 15>> \o t : t \in {Midnight, Noon} } \cup
    { <<2024, 3, 1>> \o t : t \in {Midnight, Noon} }

\* The dates records carry under a clock: today, the first day of the
\* month, the last and the first day of the month before and a day before
\* the year before; in January the day after today as well.
RecordDates(clock) ==
    IF clock[2] = 1
    THEN { <<2024, 1, 16>>, <<2024, 1, 15>>, <<2024, 1, 1>>,
           <<2023, 12, 31>>, <<2023, 12, 1>>, <<2022, 12, 31>> }
    ELSE { <<2024, 3, 1>>, <<2024, 2, 29>>, <<2024, 2, 1>>, <<2022, 12, 31>> }

\* What was bought: description, amount in cents, category.
Purchases ==
    { [description |-> "Lunch", amount |-> 250,  category |-> "Food"],
      [description |-> "Rent",  amount |-> 1000, category |-> "Bills"] }

Rows(clock) ==
    { [description |-> p.description, amount |-> p.amount,
       category |-> p.category, date |-> d] :
          p \in Purchases, d \in RecordDates(clock) }

\* a is a day before b, for stored dates <<year, month, day>>
DayBefore(a, b) ==
    \/ a[1] < b[1]
    \/ a[1] = b[1] /\ a[2] < b[2]
    \/ a[1] = b[1] /\ a[2] = b[2] /\ a[3] < b[3]

\* The row sequences of at most n rows in the order of get_all_expenses:
\* ORDER BY date DESC (rows of one date in either order).
RECURSIVE RowSeqs(_, _)
RowSeqs(clock, n) ==
    IF n = 0 THEN { << >> }
    ELSE LET shorter == RowSeqs(clock, n - 1)
         IN  shorter \cup
             { Append(s, r) : s \in {t \in shorter : Len(t) = n - 1},
                              r \in Rows(clock) } 

Sorted(rows) ==
    \A i \in 1..(Len(rows) - 1) : ~DayBefore(rows[i].date, rows[i + 1].date)

\* ExpenseDatabase.get_all_expenses: the DataFrame of a snapshot.
DataFrames(clock) ==
    { [columns |-> StoredColumns, rows |-> s] :
          s \in {t \in RowSeqs(clock, MaxRecords) : Sorted(t)} }

\* The description fragments typed: words with and without keywords,
\* capitals, blanks, keywords of several categories and of equal length.
Fragments ==
    { "Lunch at ", "McDonald's", "mcdonalds", " ", "xyz", "GAS", "gym",
      "Taxi", "food", "Booking", "subscription", "uber eats" }

RECURSIVE Built(_)
Built(n) ==
    IF n = 0 THEN { "" }
    ELSE LET shorter == Built(n - 1)
         IN  shorter \cup { s \o f : s \in shorter, f \in Fragments }

Descriptions == Built(MaxFragments)

-----------------------------------------------------------------------------
(* The state machine of the analytical operations on one DataFrame *)

Init ==
    /\ now \in Clocks
    /\ expenses_df \in DataFrames(now)
    /\ query = ""
    /\ description = ""
    /\ called = "none"
    /\ category_scores = << >>
    /\ result = [kind |-> "none"]
    /\ raised = ""
    /\ db = EmptyTable
    /\ session_state = {}

AnalyzeMonthlySpending ==
    LET out == analyze_monthly_spending(expenses_df, now)
    IN  /\ called' = "analyze_monthly_spending"
        /\ result' = out.ret
        /\ expenses_df' = out.df
        /\ raised' = ""
        /\ UNCHANGED <<now, query, description, category_scores, db, session_state>>

PredictNextMonthSpending ==
    LET out == predict_next_month_spending(expenses_df)
    IN  /\ called' = "predict_next_month_spending"
        /\ result' = out.ret
        /\ expenses_df' = out.df
        /\ raised' = ""
        /\ UNCHANGED <<now, query, description, category_scores, db, session_state>>

GetCategoryInsights ==
    LET out == get_category_insights(expenses_df, now)
    IN  /\ called' = "get_category_insights"
        /\ result' = out.ret
        /\ expenses_df' = out.df
        /\ raised' = ""
        /\ UNCHANGED <<now, query, description, category_scores, db, session_state>>

ProcessNaturalLanguageQuery ==
    \E q \in Queries :
        LET out == process_natural_language_query(q, expenses_df, now)
        IN  /\ called' = "process_natural_language_query"
            /\ query' = q
            /\ result' = out.ret
            /\ expenses_df' = out.df
            /\ raised' = ""
            /\ UNCHANGED <<now, description, category_scores, db, session_state>>

Next ==
    \/ AnalyzeMonthlySpending
    \/ PredictNextMonthSpending
    \/ GetCategoryInsights
    \/ ProcessNaturalLanguageQuery

Spec == Init /\ [][Next]_vars

-----------------------------------------------------------------------------
(* The state machine of the categorizer on one description *)

InitCat ==
    /\ now \in { <<2024, 1, 15>> \o Noon }
    /\ expenses_df = [columns |-> StoredColumns, rows |-> << >>]
    /\ query = ""
    /\ description \in Descriptions
    /\ called = "none"
    /\ category_scores = << >>
    /\ result = [kind |-> "none"]
    /\ raised = ""
    /\ db = EmptyTable
    /\ session_state = {}

CategorizeExpense ==
    LET out == categorize_expense(description)
    IN  /\ called' = "categorize_expense"
        /\ result' = [kind |-> "category", value |-> out.ret]
        /\ category_scores' = out.scores
        /\ raised' = ""
        /\ UNCHANGED <<now, expenses_df, query, description, db, session_state>>

NextCat == CategorizeExpense

SpecCat == InitCat /\ [][NextCat]_vars

-----------------------------------------------------------------------------
(* What the properties below are stated in: calendar days and the records  *)
(* of the collection, without the datetime arithmetic of the operations    *)

\* The calendar day of a stored date or of a datetime.
Day(d) == <<d[1], d[2], d[3]>>

Today == Day(now)

SameMonth(day, y, m) == day[1] = y /\ day[2] = m

\* The day lies in the calendar month before the clock's.
InPreviousMonth(day) ==
    IF now[2] = 1 THEN SameMonth(day, now[1] - 1, 12)
    ELSE SameMonth(day, now[1], now[2] - 1)

\* The day lies between the first day of the clock's month and today.
InCurrentMonthToDate(day) == SameMonth(day, now[1], now[2]) /\ day[3] <= now[3]

RECURSIVE TotalOver(_, _)
TotalOver(rows, indexes) ==
    IF indexes = {} THEN 0
    ELSE LET i == CHOOSE j \in indexes : TRUE
         IN  rows[i].amount + TotalOver(rows, indexes \ {i})

\* The sum of the amounts of the records that satisfy Keep.
Total(rows, Keep(_)) == TotalOver(rows, {i \in 1..Len(rows) : Keep(rows[i])})

NoFutureRecord ==
    \A i \in 1..Len(expenses_df.rows) :
        ~DayBefore(Today, Day(expenses_df.rows[i].date))

ThisMonthQuery == "How much did I spend this month"
FoodLastMonthQuery == "How much did I spend on Food last month?"

\* The questions that name "last year" and no other period.
LastYearOnly ==
    { q \in Queries :
        /\ Contains(Lower(q), "last year")
        /\ \A p \in {"last week", "last month", "this month", "this year"} :
               ~Contains(Lower(q), p) }

Analyzed == called = "analyze_monthly_spending" /\ result.kind = "analysis"

Answered(q) ==
    called = "process_natural_language_query" /\ query = q /\ result.kind = "dict"

-----------------------------------------------------------------------------
\* C1: analyze_monthly_spending returns as current_month the sum of exactly
\* the records dated from the first day of the clock's month through today,
\* and as previous_month the sum of exactly the records dated in the
\* preceding calendar month, whatever the time of day.
C1_MonthWindows ==
    Analyzed =>
        /\ result.current_month =
               Total(expenses_df.rows, LAMBDA r : InCurrentMonthToDate(Day(r.date)))
        /\ result.previous_month =
               Total(expenses_df.rows, LAMBDA r : InPreviousMonth(Day(r.date)))

\* C2 (as stated): the amount answered to "How much did I spend this month"
\* equals the current_month total of analyze_monthly_spending on the same
\* collection, for every collection.
C2_QueryEqualsAnalysis ==
    Answered(ThisMonthQuery) =>
        result.amount =
            analyze_monthly_spending(expenses_df, now).ret.current_month

\* C2 (amended): the two agree on every collection that has no record dated
\* after today.
C2_QueryEqualsAnalysisNoFuture ==
    (Answered(ThisMonthQuery) /\ NoFutureRecord) =>
        result.amount =
            analyze_monthly_spending(expenses_df, now).ret.current_month

\* C2 witness: the question was answered at noon with a non-zero total over
\* a collection without future records.
C2_Witness ==
    /\ Answered(ThisMonthQuery)
    /\ NoFutureRecord
    /\ now[4] # 0
    /\ result.amount > 0

\* C3: no analytical operation changes the collection it is given: columns
\* and field values, the date as the stored string included, stay as they
\* were.
C3_CollectionUnchanged == [][expenses_df' = expenses_df]_vars

\* C4: a question that names only "last year" is answered from records
\* dated on or after January 1 of the year before the clock's.
C4_LastYearWindow ==
    (\E q \in LastYearOnly : Answered(q)) =>
        \A i \in 1..Len(result.data) :
            ~DayBefore(Day(result.data[i].date), <<now[1] - 1, 1, 1>>)

\* C5: "How much did I spend on Food last month?" is answered with the sum
\* of exactly the Food records dated in the preceding calendar month (first
\* and last day included), and the details hold that sum as $d.cc.
C5_FoodLastMonth ==
    Answered(FoodLastMonthQuery) =>
        LET expected == Total(expenses_df.rows,
                            LAMBDA r : r.category = "Food"
                                       /\ InPreviousMonth(Day(r.date)))
        IN  /\ result.amount = expected
            /\ Contains(result.details, "$" \o Fmt2(expected))

-----------------------------------------------------------------------------
(* The categorizer's properties, stated over the keyword sets *)

KeywordsOf(c) == {category_keywords[c][i] : i \in 1..Len(category_keywords[c])}

\* The keywords of c that occur in the lowercased text d.
Occurring(c, d) == {k \in KeywordsOf(c) : Contains(d, k)}

RECURSIVE TotalLength(_)
TotalLength(keywords) ==
    IF keywords = {} THEN 0
    ELSE LET k == CHOOSE x \in keywords : TRUE
         IN  Len(k) + TotalLength(keywords \ {k})

\* Every category's score as the property defines it.
LengthScores(d) ==
    [c \in DOMAIN category_keywords |-> TotalLength(Occurring(c, d))]

Position(c) == CHOOSE i \in 1..Len(CategoryOrder) : CategoryOrder[i] = c

Categorized == called = "categorize_expense"

Blank(s) == \A i \in 1..Len(s) : SubSeq(s, i, i) = " "

\* C6: when a keyword matches, the category returned has the highest score,
\* the score being the total length of the category's keywords that occur
\* in the lowercased description, each once; among categories of equal
\* highest score the first declared is returned.
C6_HighestScoreFirstDeclared ==
    Categorized =>
        LET score == LengthScores(Lower(description))
        IN  (\E c \in DOMAIN score : score[c] > 0) =>
                /\ result.value \in DOMAIN score
                /\ \A c \in DOMAIN score : score[c] <= score[result.value]
                /\ \A c \in DOMAIN score :
                       score[c] = score[result.value] =>
                           Position(result.value) <= Position(c)

\* C6 witness: two categories share the highest score and the one declared
\* first was returned.
C6_Witness ==
    /\ Categorized
    /\ LET score == LengthScores(Lower(description))
       IN  \E c \in DOMAIN score :
               /\ c # result.value
               /\ score[c] > 0
               /\ score[c] = score[result.value]
               /\ \A e \in DOMAIN score : score[e] <= score[c]

\* C7: Other is returned exactly when no keyword of any category occurs in
\* the lowercased description, so for the empty and for every blank
\* description; the value returned is always one of the nine categories.
C7_OtherIffNoKeyword ==
    Categorized =>
        LET d == Lower(description)
        IN  /\ result.value \in Categories
            /\ result.value = "Other" <=>
                   \A c \in DOMAIN category_keywords : Occurring(c, d) = {}
            /\ Blank(description) => result.value = "Other"

\* C7 witness: a description of blanks only was categorized as Other.
C7_Witness ==
    /\ Categorized
    /\ description # ""
    /\ Blank(description)
    /\ result.value = "Other"

LunchAtMcDonalds == "Lunch at McDonald's"

\* C8 (as stated): "Lunch at McDonald's" is categorized as Food, the
\* keywords "lunch" and "mcdonalds" both occur and Food scores 14.
C8_LunchAndMcdonaldsScore ==
    (Categorized /\ description = LunchAtMcDonalds) =>
        /\ result.value = "Food"
        /\ Contains(Lower(description), "lunch")
        /\ Contains(Lower(description), "mcdonalds")
        /\ category_scores["Food"] = Len("lunch") + Len("mcdonalds")

\* C8 (amended): "Lunch at McDonald's" is categorized as Food; of Food's
\* keywords only "lunch" occurs in the lowercased description, "mcdonalds"
\* does not (the apostrophe stands inside it), and Food scores 5.
C8_OnlyLunchScores ==
    (Categorized /\ description = LunchAtMcDonalds) =>
        /\ result.value = "Food"
        /\ Occurring("Food", Lower(description)) = {"lunch"}
        /\ ~Contains(Lower(description), "mcdonalds")
        /\ category_scores["Food"] = Len("lunch")

\* C8 witness: the description was categorized.
C8_Witness ==
    /\ Categorized
    /\ description = LunchAtMcDonalds
    /\ result.value = "Food"

\* C9: a description in which keywords of exactly one category occur is
\* given that category.
C9_SingleCategory ==
    Categorized =>
        LET d == Lower(description)
        IN  \A c \in DOMAIN category_keywords :
                (/\ Occurring(c, d) # {}
                 /\ \A e \in DOMAIN category_keywords \ {c} : Occurring(e, d) = {})
                    => result.value = c

\* C9 witness: several keywords of one category and none of another occur,
\* and that category was returned.
C9_Witness ==
    /\ Categorized
    /\ result.value \in DOMAIN category_keywords
    /\ LET d == Lower(description)
       IN  /\ Cardinality(Occurring(result.value, d)) > 1
           /\ \A e \in DOMAIN category_keywords \ {result.value} :
                  Occurring(e, d) = {}

-----------------------------------------------------------------------------
\* C10: percentage_change is (current - previous) / previous * 100 when the
\* previous total is positive, 0 when both totals are 0 and exactly 100
\* when the previous total is 0 and the current one is positive.
C10_PercentageChange ==
    Analyzed =>
        LET current  == result.current_month
            previous == result.previous_month
            change   == result.percentage_change
        IN  /\ previous > 0 =>
                   change[1] * previous = (current - previous) * 100 * change[2]
            /\ (previous = 0 /\ current = 0) => change = <<0, 1>>
            /\ (previous = 0 /\ current > 0) => change = <<100, 1>>

\* C10 witness: nothing in the previous month, something in the current one.
C10_Witness ==
    /\ Analyzed
    /\ result.previous_month = 0
    /\ result.current_month > 0
    /\ result.percentage_change = <<100, 1>>

-----------------------------------------------------------------------------
(* The forecaster's properties, stated over the calendar months of the     *)
(* records                                                                 *)

Predicted == called = "predict_next_month_spending"

\* The calendar months <<year, month>> that have records.
MonthsOf(rows) == {<<rows[i].date[1], rows[i].date[2]>> : i \in 1..Len(rows)}

\* The totals of the months that have records, oldest month first.
TotalsByMonth(rows) ==
    LET months  == MonthsOf(rows)
        Nth(k)  == CHOOSE m \in months :
                       Cardinality({x \in months : MonthBefore(x, m)}) = k - 1
    IN  [k \in 1..Cardinality(months) |->
            Total(rows, LAMBDA r : <<r.date[1], r.date[2]>> = Nth(k))]

\* C11: no prediction is returned exactly when the collection has fewer
\* than 3 records or its records lie in fewer than 2 calendar months; in
\* every other case a number is returned.
C11_NoPredictionIffTooLittle ==
    Predicted =>
        /\ result.kind = "None" <=>
               \/ Len(expenses_df.rows) < 3
               \/ Cardinality(MonthsOf(expenses_df.rows)) < 2
        /\ result.kind \in {"None", "prediction"}

\* C11 witness: three records of one calendar month, and no prediction.
C11_Witness ==
    /\ Predicted
    /\ Len(expenses_df.rows) >= 3
    /\ Cardinality(MonthsOf(expenses_df.rows)) = 1
    /\ result.kind = "None"

\* The least-squares line through (0, y[1]) .. (N-1, y[N]) read at N, as
\* the fraction <<numerator, denominator>> (not reduced): the mean of y plus
\* the slope, covariance over variance of the indexes, times the distance of
\* N from the mean index.
RECURSIVE CoVariation(_, _, _)
CoVariation(y, z, i) ==
    IF i > Len(y) THEN 0
    ELSE LET N  == Len(y)
             Sx == (N * (N - 1)) \div 2
         IN  (N * (i - 1) - Sx) * (N * z[i] - SumSeq(z))
             + CoVariation(y, z, i + 1)

LeastSquaresAtN(y) ==
    LET N     == Len(y)
        Sx    == (N * (N - 1)) \div 2
        index == [i \in 1..N |-> i - 1]
        cov   == CoVariation(y, y, 1)
        var   == CoVariation(y, index, 1)
    IN  <<SumSeq(y) * var + cov * (N * N - Sx), N * var>>

\* C12: a prediction is max(0, value at N of the least-squares line through
\* the N monthly totals); it is never negative, and for two months with
\* totals y0 < y1 it is 2*y1 - y0.
C12_ClampedLeastSquares ==
    (Predicted /\ result.kind = "prediction") =>
        LET y      == TotalsByMonth(expenses_df.rows)
            fitted == LeastSquaresAtN(y)
            value  == result.value
        IN  /\ value[1] >= 0 /\ value[2] > 0
            /\ fitted[1] <= 0 => value[1] = 0
            /\ fitted[1] > 0 => value[1] * fitted[2] = fitted[1] * value[2]
            /\ (Len(y) = 2 /\ y[1] < y[2]) =>
                   /\ value = <<2 * y[2] - y[1], 1>>
                   /\ value[1] >= y[2]

\* C12 witness: the fitted line is below zero at N and 0 was returned.
C12_Witness ==
    /\ Predicted
    /\ result.kind = "prediction"
    /\ LeastSquaresAtN(TotalsByMonth(expenses_df.rows))[1] < 0
    /\ result.value = <<0, 1>>

-----------------------------------------------------------------------------
(* The state machine of the insight detector on long collections: a few    *)
(* recent records in front of many old ones                                *)

MaxTrendRecords == 3
MaxPadding == 28

\* An old record, before every date of RecordDates.
OldRow ==
    [description |-> "Misc", amount |-> 100, category |-> "Other",
     date |-> <<2022, 6, 30>>]

\* The snapshots of get_all_expenses with n old records behind the recent
\* ones (ORDER BY date DESC puts them last).
PaddedDataFrames(clock, n) ==
    { [columns |-> StoredColumns, rows |-> s \o [i \in 1..n |-> OldRow]] :
          s \in {t \in RowSeqs(clock, MaxTrendRecords) : Sorted(t)} }

InitTrend ==
    /\ now \in Clocks
    /\ \E n \in {0, MaxPadding - 1, MaxPadding} :
           expenses_df \in PaddedDataFrames(now, n)
    /\ query = ""
    /\ description = ""
    /\ called = "none"
    /\ category_scores = << >>
    /\ result = [kind |-> "none"]
    /\ raised = ""
    /\ db = EmptyTable
    /\ session_state = {}

NextTrend == GetCategoryInsights

SpecTrend == InitTrend /\ [][NextTrend]_vars

-----------------------------------------------------------------------------
(* The insight detector's properties, stated over calendar months *)

Insighted == called = "get_category_insights"

InCurrentMonth(day) == SameMonth(day, now[1], now[2])

\* The categories that have records satisfying Keep.
CategoriesWith(rows, Keep(_)) ==
    {rows[i].category : i \in {j \in 1..Len(rows) : Keep(rows[j])}}

\* The sum of category c over the current calendar month and over the one
\* before it.
CurrentSum(c) ==
    Total(expenses_df.rows,
          LAMBDA r : r.category = c /\ InCurrentMonth(Day(r.date)))

PreviousSum(c) ==
    Total(expenses_df.rows,
          LAMBDA r : r.category = c /\ InPreviousMonth(Day(r.date)))

CurrentCategories ==
    CategoriesWith(expenses_df.rows, LAMBDA r : InCurrentMonth(Day(r.date)))

PreviousCategories ==
    CategoriesWith(expenses_df.rows, LAMBDA r : InPreviousMonth(Day(r.date)))

\* The current-month sums of the categories cats, added up.
RECURSIVE SumCurrent(_)
SumCurrent(cats) ==
    IF cats = {} THEN 0
    ELSE LET c == CHOOSE x \in cats : TRUE
         IN  CurrentSum(c) + SumCurrent(cats \ {c})

\* The categories the returned list holds an insight of the type for.
Flagged(type) ==
    {result.list[i].category :
        i \in {j \in 1..Len(result.list) : result.list[j].type = type}}

\* C13: high_spending is emitted for category c exactly when c's sum over
\* the current month exceeds 1.5 times the mean of the current-month sums
\* of the categories that have current-month records; none is emitted when
\* the current month has no records.
C13_HighSpendingIffAboveMean ==
    Insighted =>
        Flagged("high_spending") =
            {c \in CurrentCategories :
                2 * Cardinality(CurrentCategories) * CurrentSum(c)
                    > 3 * SumCurrent(CurrentCategories)}

\* C14: increasing_trend is emitted for category c exactly when the
\* collection has more than 30 records, c has records in the current month
\* and in the month before, and its current sum exceeds 1.3 times its
\* previous sum; with 30 records or fewer none is emitted.
C14_IncreasingTrendIff ==
    Insighted =>
        Flagged("increasing_trend") =
            {c \in CurrentCategories \cap PreviousCategories :
                /\ Len(expenses_df.rows) > 30
                /\ 10 * CurrentSum(c) > 13 * PreviousSum(c)}

\* C15: the current-month sum of a category is taken over exactly the
\* records dated in the current calendar month, the first day included and
\* later months excluded: the amount of every high_spending insight is that
\* sum.
C15_CurrentMonthSums ==
    Insighted =>
        \A i \in 1..Len(result.list) :
            result.list[i].type = "high_spending" =>
                result.list[i].amount = CurrentSum(result.list[i].category)


-----------------------------------------------------------------------------
(* The state machine of the query interpreter on a ledger *)

MaxLedger == 7

\* Records as get_all_expenses returns them, newest first: descriptions all
\* different, amounts that tie at the top, in the middle and at the bottom.
Ledger ==
    << [description |-> "Cinema",    amount |-> 1500, category |-> "Entertainment",
        date |-> <<2024, 2, 10>>],
       [description |-> "Groceries", amount |-> 4000, category |-> "Food",
        date |-> <<2024, 1, 12>>],
       [description |-> "Taxi",      amount |-> 1500, category |-> "Transportation",
        date |-> <<2024, 1, 12>>],
       [description |-> "Rent",      amount |-> 4000, category |-> "Bills",
        date |-> <<2024, 1, 1>>],
       [description |-> "Dinner",    amount |-> 900,  category |-> "Food",
        date |-> <<2023, 12, 20>>],
       [description |-> "Bus",       amount |-> 900,  category |-> "Transportation",
        date |-> <<2023, 12, 1>>],
       [description |-> "Books",     amount |-> 2500, category |-> "Education",
        date |-> <<2023, 6, 5>>],
       [description |-> "Shoes",     amount |-> 3000, category |-> "Shopping",
        date |-> <<2022, 11, 11>>] >>

\* The records of the ledger at the positions S, in the ledger's order.
Pick(S) ==
    [k \in 1..Cardinality(S) |->
        Ledger[CHOOSE i \in S : Cardinality({j \in S : j < i}) = k - 1]]

Ledgers ==
    { [columns |-> StoredColumns, rows |-> Pick(S)] :
        S \in SUBSET (1..(IF MaxLedger < Len(Ledger) THEN MaxLedger ELSE Len(Ledger))) }

InitQuery ==
    /\ now \in Clocks
    /\ expenses_df \in Ledgers
    /\ query = ""
    /\ description = ""
    /\ called = "none"
    /\ category_scores = << >>
    /\ result = [kind |-> "none"]
    /\ raised = ""
    /\ db = EmptyTable
    /\ session_state = {}

ProcessLedgerQuery ==
    \E q \in LedgerQueries :
        LET out == process_natural_language_query(q, expenses_df, now)
        IN  /\ called' = "process_natural_language_query"
            /\ query' = q
            /\ result' = out.ret
            /\ expenses_df' = out.df
            /\ raised' = ""
            /\ UNCHANGED <<now, description, category_scores, db, session_state>>

NextQuery == ProcessLedgerQuery

SpecQuery == InitQuery /\ [][NextQuery]_vars


-----------------------------------------------------------------------------
(* C16: one time filter, chosen in the fixed order of the phrases *)

\* A question was put to a ledger that has records.
Asked ==
    /\ called = "process_natural_language_query"
    /\ query \in LedgerQueries
    /\ Len(expenses_df.rows) > 0

\* The words of a set that occur in the lowercased question.
Occur(q, words) == {w \in words : Contains(Lower(q), w)}

PhraseOrder == << "last week", "last month", "this month", "this year", "last year" >>

\* The first phrase, in the fixed order, that occurs in each question; ""
\* when none occurs.
FirstPhrase ==
    [q \in LedgerQueries |->
        LET hits == {i \in 1..Len(PhraseOrder) : Contains(Lower(q), PhraseOrder[i])}
        IN  IF hits = {} THEN ""
            ELSE PhraseOrder[CHOOSE i \in hits : \A j \in hits : i <= j]]

CategoryNames == {Lower(CategoryOrder[i]) : i \in 1..Len(CategoryOrder)}

MaxWords == {"highest", "maximum", "max", "most expensive"}
MinWords == {"lowest", "minimum", "min", "cheapest"}
SumWords == {"how much", "total", "spent", "spending"}
AverageWords == {"average", "avg"}

\* The questions that name no category and ask for no extreme: their
\* answer lists the records the time filter kept.
PeriodQueries ==
    { q \in LedgerQueries :
        /\ Occur(q, CategoryNames) = {}
        /\ Occur(q, MaxWords \cup MinWords \cup AverageWords) = {} }

\* The questions that hold a word of the Sum branch.
SumQueries == {q \in LedgerQueries : Occur(q, SumWords) # {}}

\* C16: the answer is drawn from the records kept by one filter, that of the
\* first phrase in the order "last week", "last month", "this month",
\* "this year", "last year" that occurs in the question, wherever the
\* phrases stand in it, and the details name that phrase; a question with
\* none of the phrases is answered over all records.
C16_FirstPhraseInTableOrder ==
    (Asked /\ query \in PeriodQueries) =>
        LET p    == FirstPhrase[query]
            kept == TimeFiltered(expenses_df.rows, p, now)
            text == IF p = "" THEN "" ELSE " " \o p
        IN  /\ p = "" => kept = expenses_df.rows
            /\ result.kind = "text" => kept = << >>
            /\ result.kind = "dict" =>
                   /\ result.data = Project(kept)
                   /\ result.amount = SumAmount(kept)
                   /\ result.details \in
                          { "Total spending" \o text \o ": $" \o Fmt2(result.amount),
                            "Found " \o NatStr(Len(kept)) \o " expenses totaling $"
                                \o Fmt2(result.amount) }
                   /\ query \in SumQueries =>
                          result.details =
                              "Total spending" \o text \o ": $" \o Fmt2(result.amount)

\* "this month" stands first in the question and "last week" wins; the two
\* filters keep different records of this ledger.
C16_Witness ==
    /\ Asked
    /\ query = "total this month or last week"
    /\ result.kind = "dict"
    /\ result.data = Project(TimeFiltered(expenses_df.rows, "last week", now))
    /\ result.data # Project(TimeFiltered(expenses_df.rows, "this month", now))
    /\ Len(result.data) > 0


-----------------------------------------------------------------------------
(* C17: one category, chosen in the fixed order of the names *)

NameOrder ==
    << "Food", "Transportation", "Shopping", "Entertainment",
       "Bills", "Healthcare", "Education", "Travel" >>

\* The first category, in the fixed order, whose lowercased name occurs in
\* each question; "" when none occurs.
FirstName ==
    [q \in LedgerQueries |->
        LET hits == {i \in 1..Len(NameOrder) : Contains(Lower(q), Lower(NameOrder[i]))}
        IN  IF hits = {} THEN ""
            ELSE NameOrder[CHOOSE i \in hits : \A j \in hits : i <= j]]

\* The questions that ask for no extreme: their answer lists the records
\* the two filters kept.
ListingQueries == {q \in LedgerQueries : Occur(q, MaxWords \cup MinWords) = {}}

\* The records of the period of the question.
InPeriod == TimeFiltered(expenses_df.rows, FirstPhrase[query], now)

\* C17: the records answered from are those of the period that belong to
\* the first category, in the order Food, Transportation, Shopping,
\* Entertainment, Bills, Healthcare, Education, Travel, whose lowercased
\* name occurs in the question; all records of the period when no name
\* occurs.
C17_FirstCategoryInTableOrder ==
    (Asked /\ query \in ListingQueries) =>
        LET c    == FirstName[query]
            kept == IF c = "" THEN InPeriod
                    ELSE SelectSeq(InPeriod, LAMBDA r : r.category = c)
        IN  /\ result.kind = "text" => kept = << >>
            /\ result.kind = "dict" =>
                   /\ result.data = Project(kept)
                   /\ query \in SumQueries =>
                          /\ result.amount = SumAmount(kept)
                          /\ result.details =
                                 "Total spending"
                                     \o (IF c = "" THEN "" ELSE " on " \o c)
                                     \o (IF FirstPhrase[query] = "" THEN ""
                                         ELSE " " \o FirstPhrase[query])
                                     \o ": $" \o Fmt2(result.amount)

\* "bills" stands first in the question and Food wins, on a ledger that has
\* records of both.
C17_Witness ==
    /\ Asked
    /\ query = "total bills and food"
    /\ result.kind = "dict"
    /\ Len(result.data) > 0
    /\ \A i \in 1..Len(result.data) : result.data[i].category = "Food"
    /\ \E i \in 1..Len(expenses_df.rows) : expenses_df.rows[i].category = "Bills"


-----------------------------------------------------------------------------
(* C18: the intent is that of the first keyword group with a word in the
   question *)

\* The branch each question selects by the stated rule.
FirstGroup ==
    [q \in LedgerQueries |->
        IF Occur(q, SumWords) # {} THEN "Sum"
        ELSE IF Occur(q, AverageWords) # {} THEN "Average"
        ELSE IF Occur(q, MaxWords) # {} THEN "Max"
        ELSE IF Occur(q, MinWords) # {} THEN "Min"
        ELSE "Summary"]

\* The branch that produced the answer, read off the first words of its
\* details; "none" when the answer is the plain message.
BranchTaken ==
    IF result.kind # "dict" THEN "none"
    ELSE LET head == SubSeq(result.details, 1, 5)
         IN  CASE head = "Total" -> "Sum"
               [] head = "Avera" -> "Average"
               [] head = "Highe" -> "Max"
               [] head = "Lowes" -> "Min"
               [] head = "Found" -> "Summary"
               [] OTHER -> "unknown"

\* The records the two filters of the question keep.
Kept ==
    IF FirstName[query] = "" THEN InPeriod
    ELSE SelectSeq(InPeriod, LAMBDA r : r.category = FirstName[query])

\* C18: the answer comes from the Sum branch exactly when a Sum word occurs,
\* from the Average branch exactly when an Average word and no Sum word
\* occurs, from the Max branch when a Max word and no Sum or Average word
\* occurs, from the Min branch when a Min word and no word of the earlier
\* groups occurs, else from the Summary branch; the Max, Min and Summary
\* branches give the plain message when no record is kept.
C18_FirstKeywordGroup ==
    Asked =>
        /\ FirstGroup[query] \in {"Sum", "Average"} => BranchTaken = FirstGroup[query]
        /\ FirstGroup[query] \in {"Max", "Min", "Summary"} =>
               BranchTaken = (IF Kept = << >> THEN "none" ELSE FirstGroup[query])

\* An Average word and a Sum word in one question: the Sum branch answers.
C18_Witness ==
    /\ Asked
    /\ query = "What's my average spending on transportation?"
    /\ BranchTaken = "Sum"
    /\ Len(result.data) > 1


-----------------------------------------------------------------------------
(* C19: the Summary answer *)

\* The answer is the Summary of the records kept: their sum as amount,
\* their number and sum in the details.
SummaryOfKept ==
    /\ result.kind = "dict"
    /\ result.amount = SumAmount(Kept)
    /\ result.details =
           "Found " \o NatStr(Len(Kept)) \o " expenses totaling $"
               \o Fmt2(SumAmount(Kept))

\* C19 (as stated): a question with no intent word, put to a collection that
\* has records, is answered with the Summary of the filtered set, for
\* every filtered set the two filters produce.
C19_SummaryOfEveryFilteredSet ==
    (Asked /\ FirstGroup[query] = "Summary") => SummaryOfKept

\* C19 (amended): it is answered with the Summary of the filtered set when
\* the filtered set has records, and with the plain not-understood message
\* when the filters keep no record.
C19_SummaryUnlessNothingKept ==
    (Asked /\ FirstGroup[query] = "Summary") =>
        IF Kept # << >> THEN SummaryOfKept /\ result.data = Project(Kept)
        ELSE result = [kind |-> "text", text |-> NotUnderstood]

\* A Summary of a filtered set smaller than the collection.
C19_Witness ==
    /\ Asked
    /\ FirstGroup[query] = "Summary"
    /\ result.kind = "dict"
    /\ Len(Kept) > 1
    /\ Len(Kept) < Len(expenses_df.rows)
    /\ result.amount = SumAmount(Kept)


-----------------------------------------------------------------------------
(* C20: the Max and Min answers *)

PreviewRows == 5

\* The first record of Kept, in the collection's order, whose amount is a.
FirstWith(a) == Kept[CHOOSE i \in 1..Len(Kept) :
                         /\ Kept[i].amount = a
                         /\ \A j \in 1..(i - 1) : Kept[j].amount # a]

\* The details of an answer that describes the record r.
Describes(word, r) ==
    result.details = word \o " expense: " \o r.description
                         \o " - $" \o Fmt2(r.amount) \o " on " \o FmtDate(r.date)

\* The preview holds records of Kept, each once: 5 of them, or all when
\* Kept has fewer.
PreviewOfKept ==
    /\ Len(result.data) =
           (IF Len(Kept) < PreviewRows THEN Len(Kept) ELSE PreviewRows)
    /\ \A i \in 1..Len(result.data) :
           \E k \in 1..Len(Kept) : result.data[i] = Project(Kept)[k]
    /\ \A i, j \in 1..Len(result.data) :
           i # j => result.data[i] # result.data[j]

\* The records of Kept that the preview leaves out.
LeftOut ==
    {k \in 1..Len(Kept) :
        \A i \in 1..Len(result.data) : result.data[i] # Project(Kept)[k]}

\* C20: a Max (Min) question whose filters keep some record is answered
\* with the largest (smallest) amount kept, the details describe the first
\* record in the collection's order that has it, and the preview is the 5
\* records kept with the largest (smallest) amounts, largest (smallest)
\* first, or all of them when fewer than 5 are kept.
C20_ExtremeRecordAndPreview ==
    (Asked /\ Kept # << >>) =>
        /\ FirstGroup[query] = "Max" =>
               /\ result.kind = "dict"
               /\ \A k \in 1..Len(Kept) : Kept[k].amount <= result.amount
               /\ \E k \in 1..Len(Kept) : Kept[k].amount = result.amount
               /\ Describes("Highest", FirstWith(result.amount))
               /\ PreviewOfKept
               /\ \A i \in 1..(Len(result.data) - 1) :
                      result.data[i].amount >= result.data[i + 1].amount
               /\ \A k \in LeftOut : \A i \in 1..Len(result.data) :
                      Kept[k].amount <= result.data[i].amount
        /\ FirstGroup[query] = "Min" =>
               /\ result.kind = "dict"
               /\ \A k \in 1..Len(Kept) : Kept[k].amount >= result.amount
               /\ \E k \in 1..Len(Kept) : Kept[k].amount = result.amount
               /\ Describes("Lowest", FirstWith(result.amount))
               /\ PreviewOfKept
               /\ \A i \in 1..(Len(result.data) - 1) :
                      result.data[i].amount <= result.data[i + 1].amount
               /\ \A k \in LeftOut : \A i \in 1..Len(result.data) :
                      Kept[k].amount >= result.data[i].amount

\* A Max question over more than 5 records, two of which have the largest
\* amount: the preview is cut at 5 and the first of the two is described.
C20_Witness ==
    /\ Asked
    /\ query = "maximum"
    /\ result.kind = "dict"
    /\ Len(Kept) > PreviewRows
    /\ Len(result.data) = PreviewRows
    /\ Cardinality({k \in 1..Len(Kept) : Kept[k].amount = result.amount}) = 2
    /\ Describes("Highest", FirstWith(result.amount))

\* A Min question over records two of which have the smallest amount.
C20_WitnessMin ==
    /\ Asked
    /\ query = "minimum"
    /\ result.kind = "dict"
    /\ Len(Kept) > PreviewRows
    /\ Cardinality({k \in 1..Len(Kept) : Kept[k].amount = result.amount}) = 2


-----------------------------------------------------------------------------
(* C21: Max and Min questions whose filters keep nothing *)

\* C21: a Max or Min question put to a collection that has records, whose
\* filters keep no record, is answered with the literal not-understood
\* message as a plain text: no result record, no error text.
C21_ExtremeOfNothingNotUnderstood ==
    (Asked /\ FirstGroup[query] \in {"Max", "Min"} /\ Kept = << >>) =>
        result = [kind |-> "text",
                  text |-> "I couldn't understand your query. Please try rephrasing it."]

\* A Min question about Food put to a ledger without Food records.
C21_Witness ==
    /\ Asked
    /\ query = "cheapest food"
    /\ \A i \in 1..Len(expenses_df.rows) : expenses_df.rows[i].category # "Food"
    /\ result.kind = "text"


-----------------------------------------------------------------------------
(* C22: the Average of no records *)

\* C22: an Average question (an Average word, no Sum word) put to a
\* collection that has records, whose filters keep no record, is answered
\* with a result record whose amount is 0, not the undefined value.
C22_AverageOfNothingIsZero ==
    (Asked /\ FirstGroup[query] = "Average" /\ Kept = << >>) =>
        /\ result.kind = "dict"
        /\ result.amount = <<0, 1>>


-----------------------------------------------------------------------------
(* The state machine of the query interpreter on a long ledger *)

MaxOld == 5

\* The first k records of the ledger followed by n old records.
LongLedgers ==
    { [columns |-> StoredColumns,
       rows    |-> SubSeq(Ledger, 1, k) \o [i \in 1..n |-> OldRow]] :
        k \in 0..(IF MaxLedger < Len(Ledger) THEN MaxLedger ELSE Len(Ledger)),
        n \in 0..MaxOld }

InitPreview ==
    /\ now \in Clocks
    /\ expenses_df \in LongLedgers
    /\ query = ""
    /\ description = ""
    /\ called = "none"
    /\ category_scores = << >>
    /\ result = [kind |-> "none"]
    /\ raised = ""
    /\ db = EmptyTable
    /\ session_state = {}

NextPreview == ProcessLedgerQuery

SpecPreview == InitPreview /\ [][NextPreview]_vars

-----------------------------------------------------------------------------
(* C23: the preview is bounded *)

ListedRows == 10

\* How often the record r stands in the sequence s.
Times(r, s) == Cardinality({i \in 1..Len(s) : s[i] = r})

-----------------------------------------------------------------------------
(* C24: a call on a collection that earlier calls have worked on *)

\* The collection as the store returns it: the stored columns, the dates as
\* stored.
Fresh(df) ==
    [columns |-> StoredColumns,
     rows    |-> [i \in 1..Len(df.rows) |->
                     [description |-> df.rows[i].description,
                      amount      |-> df.rows[i].amount,
                      category    |-> df.rows[i].category,
                      date        |-> Day(df.rows[i].date)]]]

\* Each call returns what one call on a fresh copy of the collection it was
\* given returns, and leaves the stored content of the collection as it was.
SameAsOnFreshCopy ==
    /\ Fresh(expenses_df') = Fresh(expenses_df)
    /\ called' = "analyze_monthly_spending" =>
           result' = analyze_monthly_spending(Fresh(expenses_df), now).ret
    /\ called' = "predict_next_month_spending" =>
           result' = predict_next_month_spending(Fresh(expenses_df)).ret
    /\ called' = "get_category_insights" =>
           result' = get_category_insights(Fresh(expenses_df), now).ret
    /\ called' = "process_natural_language_query" =>
           result' = process_natural_language_query(query', Fresh(expenses_df), now).ret

\* C24: with the clock fixed, the result of each operation, whatever
\* operations were called on the same collection object before it (the
\* same one included), is the result of one call on a fresh copy.
C24_SameResultAsOnFreshCopy == [][SameAsOnFreshCopy]_vars

\* analyze_monthly_spending called on a collection that
\* predict_next_month_spending has already converted and extended.
C24_Witness ==
    /\ called = "analyze_monthly_spending"
    /\ \E i \in 1..Len(expenses_df.columns) : expenses_df.columns[i] = "month_year"
    /\ result.kind = "analysis"
    /\ result.current_month > 0
    /\ result.previous_month > 0


-----------------------------------------------------------------------------
(* The operations when a statement inside their try block raises *)

\* The statements of get_category_insights at which an exception is taken
\* to be raised: the conversion of the dates, the selection and grouping of
\* the current month, the search for high spending (before its loop), the
\* search for increasing trends (before its loop).  The last two are inside
\* an if and run only when its condition holds.
InsightSteps == {"to_datetime", "current_month", "high_spending", "increasing_trend"}

\* get_category_insights when the step `at` raises: the except clause prints
\* and control reaches `return insights` with the list as built so far.
get_category_insights_raising(df, current_date, at) ==
    LET df1 == ConvertDates(df)
        current_month_start == ReplaceDay1(current_date)
        current_month_data  == Since(df1.rows, current_month_start)
        category_spending   == CategorySpending(current_month_data)
        high  == IF Len(category_spending) > 0
                 THEN HighSpending(category_spending) ELSE << >>
    IN  CASE at = "to_datetime" ->
                 [ret |-> [kind |-> "insights", list |-> << >>], df |-> df]
          [] at \in {"current_month", "high_spending"} ->
                 [ret |-> [kind |-> "insights", list |-> << >>], df |-> df1]
          [] at = "increasing_trend" ->
                 [ret |-> [kind |-> "insights", list |-> high], df |-> df1]

\* The statements of predict_next_month_spending at which an exception is
\* taken to be raised.
PredictSteps == {"to_datetime", "to_period", "groupby", "fit"}

\* predict_next_month_spending when the step `at` raises: the except clause
\* prints and returns None.
predict_next_month_spending_raising(df, at) ==
    CASE at = "to_datetime" -> [ret |-> None, df |-> df]
      [] at = "to_period"   -> [ret |-> None, df |-> ConvertDates(df)]
      [] OTHER              -> [ret |-> None, df |-> AddMonthYear(ConvertDates(df))]

\* The statements of process_natural_language_query at which an exception
\* is taken to be raised, and the texts str(e) of the exception.
QuerySteps == {"to_datetime", "time_filter", "category_filter", "answer"}
Messages == {"", "Unknown datetime string format"}

\* process_natural_language_query when the step `at` raises e: the except
\* clause returns the error text.
process_natural_language_query_raising(q, df, at, e) ==
    [ret |-> Text("Error processing query: " \o e),
     df  |-> IF at = "to_datetime" THEN df ELSE ConvertDates(df)]

GetCategoryInsightsRaising ==
    /\ ~Empty(expenses_df)
    /\ \E at \in InsightSteps :
        LET out == get_category_insights_raising(expenses_df, now, at)
        IN  /\ at = "high_spending" =>
                   Len(CategorySpending(Since(ConvertDates(expenses_df).rows,
                                              ReplaceDay1(now)))) > 0
            /\ at = "increasing_trend" => Len(expenses_df.rows) > TrendMinRecords
            /\ called' = "get_category_insights"
            /\ raised' = at
            /\ result' = out.ret
            /\ expenses_df' = out.df
            /\ UNCHANGED <<now, query, description, category_scores, db, session_state>>

PredictNextMonthSpendingRaising ==
    /\ ~(Empty(expenses_df) \/ Len(expenses_df.rows) < MinRecords)
    /\ \E at \in PredictSteps :
        LET out == predict_next_month_spending_raising(expenses_df, at)
        IN  /\ at = "fit" =>
                   Len(MonthlySpending(AddMonthYear(ConvertDates(expenses_df)).rows)) >= 2
            /\ called' = "predict_next_month_spending"
            /\ raised' = at
            /\ result' = out.ret
            /\ expenses_df' = out.df
            /\ UNCHANGED <<now, query, description, category_scores, db, session_state>>

ProcessNaturalLanguageQueryRaising ==
    /\ ~Empty(expenses_df)
    /\ \E q \in Queries, at \in QuerySteps, e \in Messages :
        LET out == process_natural_language_query_raising(q, expenses_df, at, e)
        IN  /\ called' = "process_natural_language_query"
            /\ query' = q
            /\ raised' = at
            /\ result' = out.ret
            /\ expenses_df' = out.df
            /\ UNCHANGED <<now, description, category_scores, db, session_state>>

MaxFaultRecords == 2

\* Collections of a few records of the clock's months followed by n old
\* records.
FaultDataFrames(clock, n) ==
    { [columns |-> StoredColumns, rows |-> s \o [i \in 1..n |-> OldRow]] :
        s \in {t \in RowSeqs(clock, MaxFaultRecords) : Sorted(t)} }

\* Collections with and without enough records for the trend step.
InitFault ==
    /\ now \in Clocks
    /\ \E n \in {1, TrendMinRecords - 1} : expenses_df \in FaultDataFrames(now, n)
    /\ query = ""
    /\ description = ""
    /\ called = "none"
    /\ category_scores = << >>
    /\ result = [kind |-> "none"]
    /\ raised = ""
    /\ db = EmptyTable
    /\ session_state = {}

NextFault ==
    \/ GetCategoryInsightsRaising
    \/ PredictNextMonthSpendingRaising
    \/ ProcessNaturalLanguageQueryRaising

SpecFault == InitFault /\ [][NextFault]_vars

-----------------------------------------------------------------------------
(* C25: what is returned when a step raises *)

\* C25: when a step of predict_next_month_spending, get_category_insights or
\* process_natural_language_query raises, the operation returns its
\* unavailable outcome: None, the empty list of insights, a text; never a
\* part of the result built before the exception.
C25_UnavailableOnFault ==
    raised # "" =>
        /\ called = "predict_next_month_spending" => result = None
        /\ called = "get_category_insights" =>
               result = [kind |-> "insights", list |-> << >>]
        /\ called = "process_natural_language_query" => result.kind = "text"


-----------------------------------------------------------------------------
(* The store and the pages that write to it: Add Expense and Manage
   Expenses *)

MaxIds == 2

\* str.strip(), for the blank the inputs use.
RECURSIVE LStrip(_)
LStrip(s) ==
    IF Len(s) > 0 /\ SubSeq(s, 1, 1) = " " THEN LStrip(SubSeq(s, 2, Len(s))) ELSE s

RECURSIVE RStrip(_)
RStrip(s) ==
    IF Len(s) > 0 /\ SubSeq(s, Len(s), Len(s)) = " "
    THEN RStrip(SubSeq(s, 1, Len(s) - 1)) ELSE s

Strip(s) == LStrip(RStrip(s))

\* The longest description validate_expense_input accepts.
MaxDescription == 200

validate_expense_input(d, amount) ==
    IF d = "" \/ Strip(d) = "" THEN FALSE
    ELSE IF amount <= 0 THEN FALSE
    ELSE IF Len(Strip(d)) > MaxDescription THEN FALSE
    ELSE TRUE

\* n copies of the character c.
RECURSIVE Repeat(_, _)
Repeat(c, n) ==
    IF n = 0 THEN ""
    ELSE IF n % 2 = 0 THEN LET half == Repeat(c, n \div 2) IN half \o half
    ELSE c \o Repeat(c, n - 1)

\* What the user types into a description field: nothing, blanks only, a
\* word, a word between blanks, the longest accepted text, one character
\* more.
TypedDescriptions ==
    { "", "   ", "Lunch", "  Tea ",
      Repeat("x", MaxDescription), Repeat("x", MaxDescription + 1) }

\* The amounts a number_input with min_value=0.01 yields, in cents.
TypedAmounts == {250}

\* The categories picked in the selectbox.
TypedCategories == {"Food"}

\* db.add_expense: INSERT, the id is one more than the largest ever given.
add_expense(table, d, amount, category, date) ==
    [rows |-> Append(table.rows,
                     [id |-> table.seq + 1, description |-> d, amount |-> amount,
                      category |-> category, date |-> date]),
     seq  |-> table.seq + 1]

\* db.update_expense: UPDATE ... WHERE id = ?
update_expense(table, expense_id, d, amount, category, date) ==
    [table EXCEPT !.rows =
        [i \in 1..Len(table.rows) |->
            IF table.rows[i].id = expense_id
            THEN [id |-> expense_id, description |-> d, amount |-> amount,
                  category |-> category, date |-> date]
            ELSE table.rows[i]]]

\* db.delete_expense: DELETE ... WHERE id = ?
delete_expense(table, expense_id) ==
    [table EXCEPT !.rows = SelectSeq(table.rows, LAMBDA r : r.id # expense_id)]

Ids(table) == {table.rows[i].id : i \in 1..Len(table.rows)}

\* A faulty variant of ConfirmKey: one key for all records.
ConfirmKeyShared(id) == <<"confirm_delete", 0>>

\* The keys of st.session_state the Manage Expenses page uses.
ConfirmKey(id) == <<"confirm_delete", id>>
EditingKey(id) == <<"editing", id>>

Page(shown, id) == [kind |-> "page", shown |-> shown, id |-> id]

InitStore ==
    /\ now \in { <<2024, 1, 15>> \o Noon }
    /\ expenses_df = [columns |-> StoredColumns, rows |-> << >>]
    /\ query = ""
    /\ description = ""
    /\ called = "none"
    /\ category_scores = << >>
    /\ result = [kind |-> "none"]
    /\ raised = ""
    /\ db = EmptyTable
    /\ session_state = {}

\* show_add_expense, the form submitted.
SubmitAddExpense ==
    /\ db.seq < MaxIds
    /\ \E d \in TypedDescriptions, amount \in TypedAmounts, category \in TypedCategories :
        /\ called' = "show_add_expense"
        /\ IF validate_expense_input(d, amount)
           THEN /\ db' = add_expense(db, d, amount, category, Day(now))
                /\ result' = Page("Success!", db.seq + 1)
           ELSE /\ db' = db
                /\ result' = Page("Invalid Input", 0)
        /\ UNCHANGED <<now, expenses_df, query, description, category_scores, raised,
                       session_state>>

\* show_manage_expenses, the Edit button of a row clicked.
ClickEdit ==
    \E id \in Ids(db) :
        /\ called' = "show_manage_expenses"
        /\ session_state' = session_state \cup {EditingKey(id)}
        /\ result' = Page("Edit", id)
        /\ UNCHANGED <<now, expenses_df, query, description, category_scores, raised, db>>

\* show_manage_expenses, the Delete button of a row clicked.
ClickDelete ==
    \E id \in Ids(db) :
        /\ called' = "show_manage_expenses"
        /\ IF ConfirmKey(id) \in session_state
           THEN /\ db' = delete_expense(db, id)
                /\ session_state' = session_state
                /\ result' = Page("Expense deleted!", id)
           ELSE /\ db' = db
                /\ session_state' = session_state \cup {ConfirmKey(id)}
                /\ result' = Page("Click again to confirm deletion", id)
        /\ UNCHANGED <<now, expenses_df, query, description, category_scores, raised>>

\* show_manage_expenses, the edit form of a row submitted with Save Changes.
SubmitSaveChanges ==
    \E id \in Ids(db) :
        /\ EditingKey(id) \in session_state
        /\ \E d \in TypedDescriptions, amount \in TypedAmounts, category \in TypedCategories :
            db' = update_expense(db, id, d, amount, category, Day(now))
        /\ called' = "show_manage_expenses"
        /\ session_state' = session_state \ {EditingKey(id)}
        /\ result' = Page("Expense updated!", id)
        /\ UNCHANGED <<now, expenses_df, query, description, category_scores, raised>>

\* show_manage_expenses, the edit form of a row submitted with Cancel.
SubmitCancel ==
    \E id \in Ids(db) :
        /\ EditingKey(id) \in session_state
        /\ called' = "show_manage_expenses"
        /\ session_state' = session_state \ {EditingKey(id)}
        /\ result' = Page("Cancel", id)
        /\ UNCHANGED <<now, expenses_df, query, description, category_scores, raised, db>>

NextStore ==
    \/ SubmitAddExpense
    \/ ClickEdit
    \/ ClickDelete
    \/ SubmitSaveChanges
    \/ SubmitCancel

SpecStore == InitStore /\ [][NextStore]_vars


-----------------------------------------------------------------------------
(* C26: the descriptions in the store *)

\* C26: after any sequence of Add Expense submissions, Save Changes
\* submissions and deletions every record of the store has a description of
\* 1 to 200 characters after trimming.
C26_StoredDescriptionsValid ==
    \A i \in 1..Len(db.rows) :
        /\ Len(Strip(db.rows[i].description)) >= 1
        /\ Len(Strip(db.rows[i].description)) <= 200


-----------------------------------------------------------------------------
(* C29: deletion needs two clicks on the same record *)

\* The step is a Delete click on record id.
DeleteClicked(id) ==
    /\ called' = "show_manage_expenses"
    /\ result'.id = id
    /\ result'.shown \in {"Expense deleted!", "Click again to confirm deletion"}

\* One step of the session, as C29 allows it: a record leaves the store
\* only by a Delete click on it made while its confirm_delete flag is set;
\* the flag of a record is set only by a Delete click on that record, which
\* deletes nothing; a Delete click on a record whose flag is not set changes
\* no record.
DeleteOnlyWhenArmed ==
    /\ \A id \in Ids(db) \ Ids(db') :
           /\ DeleteClicked(id)
           /\ ConfirmKey(id) \in session_state
           /\ Ids(db') = Ids(db) \ {id}
    /\ \A id \in 1..MaxIds :
           (ConfirmKey(id) \in session_state' /\ ConfirmKey(id) \notin session_state) =>
               /\ DeleteClicked(id)
               /\ db' = db
               /\ session_state' = session_state \cup {ConfirmKey(id)}
    /\ \A id \in Ids(db) :
           (DeleteClicked(id) /\ ConfirmKey(id) \notin session_state) => db' = db

\* C29: over any sequence of user actions, db.delete_expense(id) is invoked
\* only by a Delete click on record id made while confirm_delete of id is
\* already set by an earlier Delete click on it; the first Delete click on a
\* record never deletes it, and a Delete click on one record never deletes
\* or arms another.
C29_DeleteOnlyWhenArmed == [][DeleteOnlyWhenArmed]_vars

\* A record has been deleted by the second click while another record,
\* clicked once, is still in the store.
C29_Witness ==
    /\ called = "show_manage_expenses"
    /\ result.shown = "Expense deleted!"
    /\ result.id \notin Ids(db)
    /\ \E id \in Ids(db) : ConfirmKey(id) \in session_state


-----------------------------------------------------------------------------
(* The state machine of the insight detector on a ledger *)

\* Records of the ledger followed by old records, with and without enough
\* of them for the trend step.
InsightLedgers ==
    { [columns |-> StoredColumns, rows |-> l.rows \o [i \in 1..n |-> OldRow]] :
        l \in Ledgers, n \in {0, MaxPadding} }

InitInsights ==
    /\ now \in Clocks
    /\ expenses_df \in InsightLedgers
    /\ query = ""
    /\ description = ""
    /\ called = "none"
    /\ category_scores = << >>
    /\ result = [kind |-> "none"]
    /\ raised = ""
    /\ db = EmptyTable
    /\ session_state = {}

NextInsights == GetCategoryInsights

SpecInsights == InitInsights /\ [][NextInsights]_vars

-----------------------------------------------------------------------------
(* C27: the order of the insights *)

\* C27: in the sequence get_category_insights returns, every high_spending
\* insight stands before every increasing_trend insight.
C27_HighSpendingFirst ==
    Insighted =>
        \A i, j \in 1..Len(result.list) :
            (result.list[i].type = "high_spending"
                 /\ result.list[j].type = "increasing_trend") => i < j

\* A sequence with an insight of one kind and two of the other.
C27_Witness ==
    /\ Insighted
    /\ Flagged("high_spending") # {}
    /\ Cardinality(Flagged("increasing_trend")) >= 2


-----------------------------------------------------------------------------
(* C28: months without records do not count *)

\* The place of the month of a day among the months that have records,
\* the oldest being 1.
MonthRank(rows, day) ==
    1 + Cardinality({m \in MonthsOf(rows) : MonthBefore(m, <<day[1], day[2]>>)})

\* The collection with its months moved together: the records of the k-th
\* month that has records are dated in the k-th month of the year 2000, so
\* the sequence of monthly totals is the same and no month between the
\* first and the last is empty.
Consecutive(df) ==
    [df EXCEPT !.rows =
        [i \in 1..Len(df.rows) |->
            [df.rows[i] EXCEPT !.date = <<2000, MonthRank(df.rows, df.rows[i].date), 1>>]]]

\* The number of calendar months from the first month with records to the
\* last.
MonthSpan(rows) ==
    LET used == {m[1] * 12 + m[2] : m \in MonthsOf(rows)}
    IN  IF used = {} THEN 0
        ELSE (CHOOSE a \in used : \A b \in used : a >= b)
                 - (CHOOSE a \in used : \A b \in used : a <= b) + 1

\* C28: the forecast is that of the collection with the same chronological
\* sequence of non-empty monthly totals and no empty month in between:
\* months without records add no point and no zero total.
C28_EmptyMonthsIgnored ==
    Predicted =>
        result = predict_next_month_spending(Consecutive(Fresh(expenses_df))).ret

\* A prediction from three months with records that are not consecutive.
C28_Witness ==
    /\ Predicted
    /\ result.kind = "prediction"
    /\ Cardinality(MonthsOf(expenses_df.rows)) = 3
    /\ MonthSpan(expenses_df.rows) > 3
    /\ result.value[1] > 0


-----------------------------------------------------------------------------
(* The AI Insights page *)

\* Python's truth value of what predict_next_month_spending returns: None
\* and 0 are false.
Truthy(prediction) ==
    IF prediction.kind = "None" THEN FALSE ELSE prediction.value[1] # 0

\* show_ai_insights: the three operations run one after the other on the
\* DataFrame the page fetched; the prediction card is drawn under
\* `if prediction:`.
show_ai_insights(df, current_date) ==
    IF Empty(df)
    THEN [ret |-> [kind |-> "ai_insights", shown |-> {"No Data Available"},
                   prediction |-> None],
          df  |-> df]
    ELSE
    LET monthly_analysis  == analyze_monthly_spending(df, current_date)
        prediction        == predict_next_month_spending(monthly_analysis.df)
        category_insights == get_category_insights(prediction.df, current_date)
    IN  [ret |-> [kind       |-> "ai_insights",
                  shown      |->
                      {"Monthly Spending Analysis"}
                          \cup (IF Truthy(prediction.ret)
                                THEN {"Next Month Prediction"} ELSE {})
                          \cup (IF Len(category_insights.ret.list) > 0
                                THEN {"Smart Category Insights"}
                                ELSE {"No Unusual Patterns"}),
                  prediction |-> prediction.ret],
         df  |-> category_insights.df]

ShowAiInsights ==
    LET out == show_ai_insights(expenses_df, now)
    IN  /\ called' = "show_ai_insights"
        /\ result' = out.ret
        /\ expenses_df' = out.df
        /\ raised' = ""
        /\ UNCHANGED <<now, query, description, category_scores, db, session_state>>

NextPage == ShowAiInsights

SpecPage == Init /\ [][NextPage]_vars

-----------------------------------------------------------------------------
(* C30: a prediction of 0 is shown *)

\* C30: the page shows the next-month prediction whenever
\* predict_next_month_spending returns a number, a prediction clamped to 0
\* included, and leaves it out only when no prediction is returned.
C30_PredictionShownIffNumber ==
    (called = "show_ai_insights" /\ ~Empty(expenses_df)) =>
        ("Next Month Prediction" \in result.shown
             <=> result.prediction.kind = "prediction")

====
